---- MODULE Spec2Model ----
(***************************************************************************)
(* The user-management request handlers of                                 *)
(* one-health/app/api/api_v1/routers/users.py as a state machine.          *)
(*                                                                         *)
(* The state is the persistence store (the user table, the user-role       *)
(* association table, the item table), the USERS_OPEN_REGISTRATION         *)
(* setting, and the last request with the response it got.  Every handler  *)
(* runs to completion as one action.  The crud and security layers the     *)
(* handlers call are not part of the routers file; they are modelled from  *)
(* their documented contracts.                                             *)
(***************************************************************************)
EXTENDS Integers, Sequences, FiniteSets

VARIABLES
    users,              \* the user table, in insertion order
    user_roles,         \* the user-role association table
    items,              \* the table GET /users/items/ lists
    open_registration,  \* settings.USERS_OPEN_REGISTRATION
    req,                \* the last request
    found_id,           \* user_id of the row the last request's lookup returned, 0 for None
    resp,               \* the last response
    listing             \* the last PaginatedItemList returned

vars == <<users, user_roles, items, open_registration, req, found_id, resp, listing>>

(***************************************************************************)
(* Bounds of the model.                                                    *)
(***************************************************************************)
MaxUsers == 2
MaxItems == 3
MaxPage == 3
MaxLimit == 3

\* Python's None, for the optional string fields and parameters.
None == "None"

\* phone_number is a plain str (Body(None)): any string, an e-mail's included.
PhoneNumbers == {"555", "a@x.io"}
\* EmailStr values.
Emails == {"a@x.io", "b@x.io"}
FullNames == {"Ann", "Bob"}
Passwords == {"pw1", "pw2"}
RoleIds == {1, 2}
Statuses == {0, 1}
\* What a login request may present as email_or_phone_no.
Identifiers == Emails \cup PhoneNumbers

UserIds == 1..MaxUsers

(***************************************************************************)
(* Responses.  A handler either returns (a JSONResponse, or the user       *)
(* record serialised through response_model) or lets an exception          *)
(* propagate to the framework.                                             *)
(***************************************************************************)
JSONResponse(status_code, detail, user_id) ==
    [kind |-> "JSONResponse", status_code |-> status_code,
     detail |-> detail, user_id |-> user_id]

Raise(exception, status_code, detail) ==
    [kind |-> exception, status_code |-> status_code,
     detail |-> detail, user_id |-> 0]

ReturnUser(user) ==
    [kind |-> "User", status_code |-> 200, detail |-> "", user_id |-> user.user_id]

\* try: ... except HTTPException as e: return JSONResponse(detail, status)
CatchHTTPException(outcome) ==
    IF outcome.kind = "HTTPException"
    THEN JSONResponse(outcome.status_code, outcome.detail, 0)
    ELSE outcome

NoRequest ==
    [op |-> "none", email_or_phone_no |-> None, password |-> None,
     user_role |-> 0, email |-> None, phone_number |-> None,
     full_name |-> None, user_id |-> 0, status |-> 0, page |-> 0, limit |-> 0]

NoResponse == [kind |-> "none", status_code |-> 0, detail |-> "", user_id |-> 0]

(***************************************************************************)
(* The security and crud collaborators.                                    *)
(***************************************************************************)
get_password_hash(password) == <<"hashed", password>>

verify_password(plain_password, hashed_password) ==
    get_password_hash(plain_password) = hashed_password

\* The rows a query matches; .first() returns one of them, or None (the
\* empty set here) when there is none.
RowsByEmailOrPhone(store, value) ==
    {store[i] : i \in {j \in DOMAIN store :
        store[j].email = value \/ store[j].phone_number = value}}

RowsByEmail(store, email) ==
    {store[i] : i \in {j \in DOMAIN store : store[j].email = email}}

RowsByUserId(store, user_id) ==
    {store[i] : i \in {j \in DOMAIN store : store[j].user_id = user_id}}

\* The possible results of .first(): each a set of at most one row.
First(rows) == IF rows = {} THEN {{}} ELSE {{r} : r \in rows}

user_role_get_by_user_id(assignments, user_id) ==
    {a \in assignments : a.user_id = user_id}

\* crud.user.create: a new row with a fresh user_id and the hashed secret.
crud_create(store, email, password, full_name, phone_number) ==
    Append(store, [user_id |-> Len(store) + 1, email |-> email,
                   phone_number |-> phone_number, full_name |-> full_name,
                   password |-> get_password_hash(password)])

\* crud.user.update: merge the fields obj_in provides into db_obj.
MergeFields(db_obj, obj_in) ==
    [db_obj EXCEPT
       !.full_name = IF obj_in.full_name = None THEN @ ELSE obj_in.full_name,
       !.phone_number = IF obj_in.phone_number = None THEN @ ELSE obj_in.phone_number,
       !.email = IF obj_in.email = None THEN @ ELSE obj_in.email]

crud_update(store, db_obj, obj_in) ==
    [i \in DOMAIN store |->
        IF store[i].user_id = db_obj.user_id
        THEN MergeFields(store[i], obj_in) ELSE store[i]]

\* crud.user.get_items: the rows with this status, offset skip, at most limit.
RECURSIVE FilterStatus(_, _)
FilterStatus(table, status) ==
    IF table = <<>> THEN <<>>
    ELSE IF Head(table).status = status
         THEN <<Head(table)>> \o FilterStatus(Tail(table), status)
         ELSE FilterStatus(Tail(table), status)

Min(a, b) == IF a <= b THEN a ELSE b

crud_get_items(table, status, skip, limit) ==
    LET rows == FilterStatus(table, status) IN
    SubSeq(rows, skip + 1, Min(Len(rows), skip + limit))

\* A listing of its own kind, so that no listing a request gets equals it.
NoListing == [total |-> 0, items |-> <<>>, skip |-> 0, limit |-> 0]

IdOf(found) == IF found = {} THEN 0 ELSE (CHOOSE u \in found : TRUE).user_id


(***************************************************************************)
(* POST /users/user-login                                                  *)
(***************************************************************************)
\* LoginBody without the comparison of role_id with the claimed role.
LoginBodyNoRoleCheck(found, assignments, password, user_role) ==
    IF found # {}
    THEN LET user == CHOOSE u \in found : TRUE IN
         IF verify_password(password, user.password) = FALSE
         THEN Raise("HTTPException", 409, "Please check user credentials")
         ELSE IF user_role_get_by_user_id(assignments, user.user_id) = {}
              THEN Raise("AttributeError", 500, "NoneType has no attribute role_id")
              ELSE JSONResponse(200, "Login successful", user.user_id)
    ELSE Raise("HTTPException", 409, "User does not exist, please sign up.")

\* LoginBody without the else branch: with no row, user.user_id is read
\* off None.
LoginBodyNoElse(found, assignments, password, user_role) ==
    IF found # {}
    THEN LET user == CHOOSE u \in found : TRUE IN
         IF verify_password(password, user.password) = FALSE
         THEN Raise("HTTPException", 409, "Please check user credentials")
         ELSE LET db_user == user_role_get_by_user_id(assignments, user.user_id) IN
              IF db_user = {}
              THEN Raise("AttributeError", 500, "NoneType has no attribute role_id")
              ELSE IF (CHOOSE a \in db_user : TRUE).role_id # user_role
              THEN Raise("HTTPException", 409, "User role does not match")
              ELSE JSONResponse(200, "Login successful", user.user_id)
    ELSE Raise("AttributeError", 500, "NoneType has no attribute user_id")

\* The body of the try block, given the row the lookup returned.
LoginBody(found, assignments, password, user_role) ==
    IF found # {}
    THEN LET user == CHOOSE u \in found : TRUE IN
         IF verify_password(password, user.password) = FALSE
         THEN Raise("HTTPException", 409, "Please check user credentials")
         ELSE LET db_user == user_role_get_by_user_id(assignments, user.user_id) IN
              IF db_user = {}
              THEN \* db_user is None: db_user.role_id raises AttributeError
                   Raise("AttributeError", 500, "NoneType has no attribute role_id")
              ELSE IF (CHOOSE a \in db_user : TRUE).role_id # user_role
              THEN Raise("HTTPException", 409, "User role does not match")
              ELSE JSONResponse(200, "Login successful", user.user_id)
    ELSE Raise("HTTPException", 409, "User does not exist, please sign up.")

Login(email_or_phone_no, password, user_role) ==
    /\ \E found \in First(RowsByEmailOrPhone(users, email_or_phone_no)) :
          /\ resp' = CatchHTTPException(
                         LoginBody(found, user_roles, password, user_role))
          /\ found_id' = IdOf(found)
    /\ req' = [NoRequest EXCEPT !.op = "user_login",
                                !.email_or_phone_no = email_or_phone_no,
                                !.password = password,
                                !.user_role = user_role]
    /\ UNCHANGED <<users, user_roles, items, open_registration, listing>>

(***************************************************************************)
(* POST /users/create-user                                                 *)
(***************************************************************************)
\* CreateUserBody without the check for a row with this e-mail.
CreateUserBodyNoCheck(store, found, email, password, full_name, phone_number) ==
    [resp |-> JSONResponse(200, "User created successfully", 0),
     users |-> crud_create(store, email, password, full_name, phone_number)]

\* The try block: what it returns or raises, and the user table it leaves.
CreateUserBody(store, found, email, password, full_name, phone_number) ==
    IF found # {}
    THEN [resp |-> Raise("HTTPException", 409,
                     "The user with this user email already exists in the system."),
          users |-> store]
    ELSE [resp |-> JSONResponse(200, "User created successfully", 0),
          users |-> crud_create(store, email, password, full_name, phone_number)]

CreateUser(email, password, full_name, phone_number) ==
    /\ \E found \in First(RowsByEmail(users, email)) :
          LET out == CreateUserBody(users, found, email, password,
                                    full_name, phone_number) IN
          /\ Len(out.users) <= MaxUsers
          /\ resp' = CatchHTTPException(out.resp)
          /\ users' = out.users
          /\ found_id' = IdOf(found)
    /\ req' = [NoRequest EXCEPT !.op = "create_user", !.email = email,
                                !.password = password, !.full_name = full_name,
                                !.phone_number = phone_number]
    /\ UNCHANGED <<user_roles, items, open_registration, listing>>

(***************************************************************************)
(* POST /users/open                                                        *)
(***************************************************************************)
\* No try block here: what the handler raises leaves the handler.
CreateUserOpenBody(store, registration, found, email, password, full_name, phone_number) ==
    IF ~registration
    THEN [resp |-> Raise("HTTPException", 403,
                     "Open user registration is forbidden on this server"),
          users |-> store]
    ELSE IF found # {}
    THEN [resp |-> Raise("HTTPException", 409,
                     "The user with this username already exists in the system"),
          users |-> store]
    ELSE LET created == crud_create(store, email, password, full_name,
                                    phone_number) IN
         [resp |-> ReturnUser(created[Len(created)]), users |-> created]

CreateUserOpen(email, password, full_name, phone_number) ==
    /\ \E found \in (IF open_registration THEN First(RowsByEmail(users, email))
                     ELSE {{}}) :
          LET out == CreateUserOpenBody(users, open_registration, found, email,
                                        password, full_name, phone_number) IN
          /\ Len(out.users) <= MaxUsers
          /\ resp' = out.resp
          /\ users' = out.users
          /\ found_id' = IdOf(found)
    /\ req' = [NoRequest EXCEPT !.op = "create_user_open", !.email = email,
                                !.password = password, !.full_name = full_name,
                                !.phone_number = phone_number]
    /\ UNCHANGED <<user_roles, items, open_registration, listing>>

(***************************************************************************)
(* GET /users/{user_id}                                                    *)
(***************************************************************************)
ReadUserByIdBody(found) ==
    IF found = {}
    THEN Raise("HTTPException", 404, "The user does not exist in the system")
    ELSE ReturnUser(CHOOSE u \in found : TRUE)

ReadUserById(user_id) ==
    /\ \E found \in First(RowsByUserId(users, user_id)) :
          /\ resp' = CatchHTTPException(ReadUserByIdBody(found))
          /\ found_id' = IdOf(found)
    /\ req' = [NoRequest EXCEPT !.op = "read_user_by_id", !.user_id = user_id]
    /\ UNCHANGED <<users, user_roles, items, open_registration, listing>>

(***************************************************************************)
(* PUT /users/update-user                                                  *)
(***************************************************************************)
UpdateUserBody(store, found, user_in) ==
    IF found = {}
    THEN [resp |-> Raise("HTTPException", 404,
                     "The user does not exist in the system"),
          users |-> store]
    ELSE [resp |-> JSONResponse(200, "Updated user details successfully", 0),
          users |-> crud_update(store, CHOOSE u \in found : TRUE, user_in)]

UpdateUser(user_in) ==
    /\ \E found \in First(RowsByUserId(users, user_in.user_id)) :
          LET out == UpdateUserBody(users, found, user_in) IN
          /\ resp' = CatchHTTPException(out.resp)
          /\ users' = out.users
          /\ found_id' = IdOf(found)
    /\ req' = [NoRequest EXCEPT !.op = "update_user",
                                !.user_id = user_in.user_id,
                                !.full_name = user_in.full_name,
                                !.phone_number = user_in.phone_number,
                                !.email = user_in.email]
    /\ UNCHANGED <<user_roles, items, open_registration, listing>>

(***************************************************************************)
(* PUT /users/me                                                           *)
(***************************************************************************)
\* UpdateUserMeInput with phone_number set under full_name's test.
UpdateUserMeInputWrongGuard(current_user, full_name, phone_number, email) ==
    [user_id |-> current_user.user_id,
     phone_number |-> IF full_name # None THEN phone_number
                      ELSE current_user.phone_number,
     full_name |-> IF full_name # None THEN full_name
                   ELSE current_user.full_name,
     email |-> IF email # None THEN email ELSE current_user.email]

\* user_in = UserUpdate(**jsonable_encoder(current_user)), then the
\* parameters that are not None overwrite its fields.
UpdateUserMeInput(current_user, full_name, phone_number, email) ==
    [user_id |-> current_user.user_id,
     phone_number |-> IF phone_number # None THEN phone_number
                      ELSE current_user.phone_number,
     full_name |-> IF full_name # None THEN full_name
                   ELSE current_user.full_name,
     email |-> IF email # None THEN email ELSE current_user.email]

UpdateUserMeBody(store, current_user, full_name, phone_number, email) ==
    crud_update(store, current_user,
                UpdateUserMeInput(current_user, full_name, phone_number, email))

\* current_user is the authenticated caller: a row of the user table.
UpdateUserMe(current_user, full_name, phone_number, email) ==
    /\ users' = UpdateUserMeBody(users, current_user, full_name, phone_number, email)
    /\ resp' = ReturnUser(current_user)
    /\ found_id' = current_user.user_id
    /\ req' = [NoRequest EXCEPT !.op = "update_user_me",
                                !.user_id = current_user.user_id,
                                !.full_name = full_name,
                                !.phone_number = phone_number,
                                !.email = email]
    /\ UNCHANGED <<user_roles, items, open_registration, listing>>

(***************************************************************************)
(* The user-role association table is written outside the router: a user   *)
(* gets at most one assignment.                                            *)
(***************************************************************************)
AssignRole(user_id, role_id) ==
    /\ RowsByUserId(users, user_id) # {}
    /\ user_role_get_by_user_id(user_roles, user_id) = {}
    /\ user_roles' = user_roles \cup {[user_id |-> user_id, role_id |-> role_id]}
    /\ req' = [NoRequest EXCEPT !.op = "assign_role", !.user_id = user_id,
                                !.user_role = role_id]
    /\ resp' = NoResponse
    /\ found_id' = 0
    /\ UNCHANGED <<users, items, open_registration, listing>>

(***************************************************************************)
(* GET /users/items/                                                       *)
(***************************************************************************)
\* Skip with pages counted from 0.
SkipFromPageZero(page, limit) == page * limit

Skip(page, limit) == (page - 1) * limit

PaginatedItemList(table, status, page, limit) ==
    LET skip == Skip(page, limit)
        rows == crud_get_items(table, status, skip, limit)
    IN [total |-> Len(rows), items |-> rows, skip |-> skip, limit |-> limit]

GetItems(status, page, limit) ==
    /\ listing' = PaginatedItemList(items, status, page, limit)
    /\ req' = [NoRequest EXCEPT !.op = "get_items", !.status = status,
                                !.page = page, !.limit = limit]
    /\ resp' = NoResponse
    /\ found_id' = 0
    /\ UNCHANGED <<users, user_roles, items, open_registration>>

(***************************************************************************)
(* Stores and inputs.                                                      *)
(***************************************************************************)
OptFullNames == FullNames \cup {None}
OptPhoneNumbers == PhoneNumbers \cup {None}
OptEmails == Emails \cup {None}

\* UserUpdate bodies of PUT /users/update-user: a user_id, stored or not, and
\* each field left out or given one of these values.
UserUpdates(names, phones, emails) ==
    [user_id : 1..(MaxUsers + 1), full_name : names \cup {None},
     phone_number : phones \cup {None}, email : emails \cup {None}]

\* The user tables of at most MaxUsers rows whose fields come from these
\* sets; user_id is the row's position.
UserTables(emails, phones, names, passwords) ==
    LET rows == [user_id : {0}, email : emails, phone_number : phones,
                 full_name : names,
                 password : {get_password_hash(p) : p \in passwords}]
    IN UNION {{[i \in 1..n |-> [f[i] EXCEPT !.user_id = i]] : f \in [1..n -> rows]}
              : n \in 0..MaxUsers}

\* The association tables over the first n users: at most one row a user.
RoleTables(n) ==
    UNION {{{[user_id |-> i, role_id |-> g[i]] : i \in S} : g \in [S -> RoleIds]}
           : S \in SUBSET (1..n)}

\* The item tables of at most MaxItems rows.
ItemTables ==
    UNION {{[i \in 1..n |-> [item_id |-> i, status |-> f[i]]] : f \in [1..n -> Statuses]}
           : n \in 0..MaxItems}

NoHistory ==
    /\ req = NoRequest
    /\ found_id = 0
    /\ resp = NoResponse
    /\ listing = NoListing

(***************************************************************************)
(* UserSpec: every user handler, from the empty database.  Every user is   *)
(* called "Ann" here; UpdateSpec varies full_name.  The user table holds   *)
(* at most MaxUsers rows: a creation that would pass it is not taken.      *)
(***************************************************************************)
InitUser ==
    /\ users = <<>>
    /\ user_roles = {}
    /\ items = <<>>
    /\ open_registration \in BOOLEAN
    /\ NoHistory

NextUser ==
    \/ \E i \in Identifiers, p \in Passwords, r \in RoleIds : Login(i, p, r)
    \/ \E e \in Emails, p \in Passwords, ph \in PhoneNumbers :
          CreateUser(e, p, "Ann", ph)
    \/ \E e \in Emails, p \in Passwords, ph \in PhoneNumbers :
          CreateUserOpen(e, p, "Ann", ph)
    \/ \E id \in 1..(MaxUsers + 1) : ReadUserById(id)
    \/ \E user_in \in UserUpdates({"Ann"}, PhoneNumbers, Emails) :
          UpdateUser(user_in)
    \/ \E i \in DOMAIN users, n \in {None, "Ann"}, ph \in OptPhoneNumbers,
          e \in OptEmails : UpdateUserMe(users[i], n, ph, e)
    \/ \E id \in UserIds, r \in RoleIds : AssignRole(id, r)

UserSpec == InitUser /\ [][NextUser]_vars

(***************************************************************************)
(* LoginSpec: logins against any user and association tables, those with   *)
(* shared e-mails or a phone number equal to an e-mail included (UserSpec  *)
(* reaches them).                                                          *)
(***************************************************************************)
InitLogin ==
    /\ users \in UserTables(Emails, PhoneNumbers, {"Ann"}, Passwords)
    /\ user_roles \in RoleTables(Len(users))
    /\ items = <<>>
    /\ open_registration = TRUE
    /\ NoHistory

NextLogin ==
    \E i \in Identifiers, p \in Passwords, r \in RoleIds : Login(i, p, r)

LoginSpec == InitLogin /\ [][NextLogin]_vars

(***************************************************************************)
(* CreateSpec: the two creating handlers, from any table of e-mails.       *)
(***************************************************************************)
InitCreate ==
    /\ users \in UserTables(Emails, {"555"}, {"Ann"}, {"pw1"})
    /\ user_roles = {}
    /\ items = <<>>
    /\ open_registration \in BOOLEAN
    /\ NoHistory

NextCreate ==
    \/ \E e \in Emails, p \in Passwords, n \in FullNames, ph \in OptPhoneNumbers :
          CreateUser(e, p, n, ph)
    \/ \E e \in Emails, p \in Passwords, n \in FullNames, ph \in OptPhoneNumbers :
          CreateUserOpen(e, p, n, ph)

CreateSpec == InitCreate /\ [][NextCreate]_vars

(***************************************************************************)
(* UpdateSpec: the two updating handlers, from any user table.  A request  *)
(* leaves a field out or sets it: full_name to "Bob", email to "b@x.io",   *)
(* phone_number to either phone number.                                    *)
(***************************************************************************)
InitUpdate ==
    /\ users \in UserTables(Emails, PhoneNumbers, FullNames, {"pw1"})
    /\ user_roles = {}
    /\ items = <<>>
    /\ open_registration = TRUE
    /\ NoHistory

NextUpdate ==
    \/ \E user_in \in UserUpdates({"Bob"}, PhoneNumbers, {"b@x.io"}) :
          UpdateUser(user_in)
    \/ \E i \in DOMAIN users, n \in {None, "Bob"}, ph \in OptPhoneNumbers,
          e \in {None, "b@x.io"} : UpdateUserMe(users[i], n, ph, e)

UpdateSpec == InitUpdate /\ [][NextUpdate]_vars

(***************************************************************************)
(* ItemSpec: the listing, over any item table.                             *)
(***************************************************************************)
InitItem ==
    /\ users = <<>>
    /\ user_roles = {}
    /\ items \in ItemTables
    /\ open_registration = TRUE
    /\ NoHistory

NextItem ==
    \E s \in Statuses, page \in 1..MaxPage, limit \in 1..MaxLimit :
        GetItems(s, page, limit)

ItemSpec == InitItem /\ [][NextItem]_vars

(***************************************************************************)
(* Spec: the whole router.                                                 *)
(***************************************************************************)
Init ==
    /\ users = <<>>
    /\ user_roles = {}
    /\ items \in ItemTables
    /\ open_registration \in BOOLEAN
    /\ NoHistory

Next == NextUser \/ NextCreate \/ NextUpdate \/ NextItem

Spec == Init /\ [][Next]_vars

(***************************************************************************)
(* Properties.                                                             *)
(***************************************************************************)
LoginSuccessful(user_id) == JSONResponse(200, "Login successful", user_id)
CredentialMismatch == JSONResponse(409, "Please check user credentials", 0)
RoleMismatch == JSONResponse(409, "User role does not match", 0)
NotFound == JSONResponse(409, "User does not exist, please sign up.", 0)

\* C1: a login with a stored user's e-mail, that user's secret and the role
\* of that user's assignment succeeds and carries that user's user_id,
\* whatever other users are stored.
C1_LoginSucceeds ==
    req.op = "user_login" =>
        \A i \in DOMAIN users :
            ( /\ users[i].email = req.email_or_phone_no
              /\ verify_password(req.password, users[i].password)
              /\ [user_id |-> users[i].user_id, role_id |-> req.user_role]
                     \in user_roles )
            => resp = LoginSuccessful(users[i].user_id)

\* C2: a login with a stored user's e-mail and a secret that does not verify
\* against that user's hash fails with CredentialMismatch, whatever the
\* claimed role and whether or not the user has an assignment.
C2_CredentialMismatch ==
    req.op = "user_login" =>
        \A i \in DOMAIN users :
            ( /\ users[i].email = req.email_or_phone_no
              /\ ~verify_password(req.password, users[i].password) )
            => resp = CredentialMismatch

C4_NotFound ==
    ( /\ req.op = "user_login"
      /\ \A i \in DOMAIN users :
            /\ users[i].email # req.email_or_phone_no
            /\ users[i].phone_number # req.email_or_phone_no )
    => (resp = NotFound /\ found_id = 0)

C4_Witness ==
    /\ req.op = "user_login"
    /\ Len(users) >= 2
    /\ \A i \in DOMAIN users :
          /\ users[i].email # req.email_or_phone_no
          /\ users[i].phone_number # req.email_or_phone_no
    /\ \E i \in DOMAIN users :
          /\ verify_password(req.password, users[i].password)
          /\ [user_id |-> i, role_id |-> req.user_role] \in user_roles
    /\ resp = NotFound

Conflict(response) ==
    /\ response.status_code = 409
    /\ response.kind \in {"JSONResponse", "HTTPException"}
    /\ response.detail \in
          {"The user with this user email already exists in the system.",
           "The user with this username already exists in the system"}

\* C5: a create-user request (POST /create-user, or POST /open with
\* registration open) whose e-mail a stored user has fails with Conflict
\* and leaves the user table as it was; one whose e-mail no stored user has
\* succeeds, appends exactly one row, with that e-mail and the hashed
\* secret, and a lookup by that e-mail then returns that row.
C5_CreateUser ==
    [][ ( /\ req'.op \in {"create_user", "create_user_open"}
          /\ req'.op = "create_user_open" => open_registration )
        => IF \E i \in DOMAIN users : users[i].email = req'.email
           THEN Conflict(resp') /\ users' = users
           ELSE /\ resp'.status_code = 200
                /\ resp'.kind \in {"JSONResponse", "User"}
                /\ Len(users') = Len(users) + 1
                /\ SubSeq(users', 1, Len(users)) = users
                /\ users'[Len(users')].email = req'.email
                /\ verify_password(req'.password, users'[Len(users')].password)
                /\ First(RowsByEmail(users', req'.email)) = {{users'[Len(users')]}}
      ]_vars

C5_Witness ==
    /\ req.op = "create_user"
    /\ resp = JSONResponse(200, "User created successfully", 0)
    /\ Len(users) >= 2
    /\ users[Len(users)].email = req.email
    /\ users[Len(users)].password = get_password_hash(req.password)
    /\ \A i \in 1..(Len(users) - 1) : users[i].email # req.email

\* C6: for page >= 1 and limit >= 1 the listing has skip = (page - 1) * limit
\* and the requested limit, its items are the rows with the requested status
\* from offset skip on, at most limit of them, and total is the number of
\* items of this page.
C6_Pagination ==
    req.op = "get_items" =>
        LET matching == SelectSeq(items, LAMBDA r : r.status = req.status)
            skip == (req.page - 1) * req.limit
            rest == IF Len(matching) > skip THEN Len(matching) - skip ELSE 0
        IN /\ listing.skip = skip
           /\ listing.limit = req.limit
           /\ Len(listing.items) <= req.limit
           /\ Len(listing.items) = Min(req.limit, rest)
           /\ \A k \in 1..Len(listing.items) : listing.items[k] = matching[skip + k]
           /\ listing.total = Len(listing.items)

C6_Witness ==
    /\ req.op = "get_items"
    /\ req.page = 2
    /\ listing.skip = req.limit
    /\ listing.items # <<>>
    /\ listing.total = Len(listing.items)
    /\ listing.total < Len(SelectSeq(items, LAMBDA r : r.status = req.status))
    /\ Len(SelectSeq(items, LAMBDA r : r.status = req.status)) < Len(items)

\* The request's update applied to the table once more.
Reapplied(store, request) ==
    IF request.op = "update_user"
    THEN UpdateUserBody(store, CHOOSE f \in First(RowsByUserId(store, request.user_id)) : TRUE,
                        [user_id |-> request.user_id, full_name |-> request.full_name,
                         phone_number |-> request.phone_number,
                         email |-> request.email]).users
    ELSE UpdateUserMeBody(store, store[request.user_id], request.full_name,
                          request.phone_number, request.email)

\* C7: an update (PUT /update-user of a stored user, PUT /me) sets each of
\* full_name, phone_number and email it provides, leaves the target's other
\* fields and every other row as they were, and applied a second time
\* leaves the table as the first application left it.
C7_PartialUpdate ==
    [][ ( /\ req'.op \in {"update_user", "update_user_me"}
          /\ resp'.status_code = 200 )
        => /\ Len(users') = Len(users)
           /\ \A i \in DOMAIN users :
                 IF users[i].user_id = req'.user_id
                 THEN /\ users'[i].full_name =
                            IF req'.full_name = None THEN users[i].full_name
                            ELSE req'.full_name
                      /\ users'[i].phone_number =
                            IF req'.phone_number = None THEN users[i].phone_number
                            ELSE req'.phone_number
                      /\ users'[i].email =
                            IF req'.email = None THEN users[i].email
                            ELSE req'.email
                      /\ users'[i].password = users[i].password
                      /\ users'[i].user_id = users[i].user_id
                 ELSE users'[i] = users[i]
           /\ user_roles' = user_roles
           /\ Reapplied(users', req') = users'
      ]_vars

C7_Witness ==
    /\ req.op = "update_user_me"
    /\ Len(users) >= 2
    /\ req.phone_number # None
    /\ req.full_name = None
    /\ req.email = None
    /\ users[req.user_id].phone_number = req.phone_number
    /\ users[req.user_id].full_name = "Bob"
    /\ \E i \in DOMAIN users : users[i].phone_number # req.phone_number

\* C8: when the identifier resolves to a stored user whose secret verifies
\* and who has no role assignment, the login fails with RoleMismatch.
C8_AbsentRoleIsMismatch ==
    ( /\ req.op = "user_login"
      /\ found_id # 0
      /\ verify_password(req.password, users[found_id].password)
      /\ \A a \in user_roles : a.user_id # found_id )
    => resp = RoleMismatch

\* C9: no HTTPException a handler raises leaves the handler: the response
\* is what the handler returned.
C9_NoExceptionLeaves ==
    resp.kind # "HTTPException"

\* C10: no two rows of the user table have the same e-mail.
C10_EmailsDistinct ==
    \A i, j \in DOMAIN users : i # j => users[i].email # users[j].email
====
